---- MODULE Spec2Model ----
(***************************************************************************)
(* Model of the RFPlayer integration core:                                 *)
(*   custom_components/rfplayer/__init__.py  (connection manager, device   *)
(*   registry / event router)                                              *)
(*   custom_components/rfplayer/rflib/rfpparser.py  (packet / id codec)    *)
(*                                                                         *)
(* The asyncio event loop runs one callback at a time, so every @callback  *)
(* (event_callback, reconnect) and every stretch of a coroutine between    *)
(* two awaits is one atomic action.                                        *)
(***************************************************************************)
EXTENDS Naturals, Sequences, FiniteSets, TLC

\* ---------------------------------------------------------------- bounds
\* Environment inputs are bounded; the program's own steps are not.
MaxLoss == 1        \* link losses the environment injects
MaxFail == 1        \* open attempts the environment lets fail
MaxEvents == 2      \* device events delivered to event_callback
MaxCmds == 1        \* service calls send_command / send_raw_command

\* ------------------------------------------------------------- constants
\* The keys connect() creates under DATA_ENTITY_LOOKUP.
Types == {"sensor", "command", "cover"}
\* Event ids the environment sends.
Ids == {"a", "b"}
\* Platform values carried by incoming events; "absent" is an event without
\* the platform key, "switch" a platform with no lookup map.
EventPlatforms == {"sensor", "switch", "absent"}
Events == [platform : EventPlatforms, id : Ids]
\* Event types whose platform is loaded by the host.
PlatformTypes == {"sensor"}
\* The two ways the loss of a link is reported to disconnect_callback.
ReportPaths == {"read_loop", "transport"}
\* call.data of the send_command service (SEND_COMMAND_SCHEMA): automatic_add,
\* entity_type ("absent": the optional key is missing), whether device_id or
\* device_address is given, and the id the call names.  A send_raw_command
\* call carries only its command text.
CommandTypes == {"command", "cover"}
Calls == [raw : {FALSE}, auto : BOOLEAN, etype : CommandTypes \cup {"absent"},
          target : BOOLEAN, id : Ids]
RawCall == [raw |-> TRUE, auto |-> FALSE, etype |-> "absent", target |-> FALSE,
            id |-> "a"]

VARIABLES
    hassState,   \* hass.state
    autoAdd,     \* options.get(CONF_AUTOMATIC_ADD, config[CONF_AUTOMATIC_ADD])
    setup,       \* position of async_setup_entry: connect, platforms, done, failed
    dataSet,     \* TRUE once hass.data[DOMAIN] exists
    protocol,    \* hass.data[DOMAIN][RFPLAYER_PROTOCOL]: 0 is None, else a transport
    lookup,      \* hass.data[DOMAIN][DATA_ENTITY_LOOKUP]
    register,    \* hass.data[DOMAIN][DATA_DEVICE_REGISTER]
    devices,     \* entry.data[CONF_DEVICES]: event id -> persisted platform
    connecting,  \* connect() tasks awaiting the open of their transport
    timers,      \* pending hass.loop.call_later(reconnect_interval, reconnect)
    tr,          \* transports opened so far, in order of opening
    inited,      \* transports on which init_commands() was issued
    lastAvail,   \* latest value sent on SIGNAL_AVAILABILITY ("none" before any)
    losses, fails, nEvents,   \* environment inputs used so far
    emit,        \* value the latest step sent on SIGNAL_AVAILABILITY, or "none"
    last,        \* outputs of the latest step when it ran event_callback
    pending,     \* service calls awaiting the result of send_(raw_)command_ack
    nCmds,       \* service calls made so far
    cmd,         \* outputs of the latest step when it ran a service handler
    invoked,     \* the codec function called last, with its argument
    returned     \* what that call returned or raised

connVars == <<hassState, autoAdd, setup, dataSet, protocol, connecting, timers,
              tr, inited, lastAvail, losses, fails, emit>>
regVars == <<lookup, register, devices, nEvents, last>>
cmdVars == <<pending, nCmds, cmd>>
codecVars == <<invoked, returned>>
vars == <<connVars, regVars, cmdVars, codecVars>>

\* ------------------------------------------------------ derived notions
OpenTransports == {t \in 1..Len(tr) : tr[t].open}
Connected == dataSet /\ protocol # 0
Connecting == connecting > 0
ShutdownBegun == hassState # "running"
\* Transports on which a stop listener has called close(): a listener is
\* removed only by running.
Closed == {t \in 1..Len(tr) : ~tr[t].listener}

\* The maps connect() installs on success: three empty defaultdict(list).
EmptyLookup == [t \in Types |-> [i \in Ids |-> "unset"]]
\* DATA_DEVICE_REGISTER after connect(): {} per type when auto-add is on.
FreshRegister == [t \in Types |-> IF autoAdd THEN "dict" ELSE "absent"]

\* A step that sends nothing on SIGNAL_AVAILABILITY.
Quiet == "none"
\* Outputs of one run of event_callback: the consumer signal the event was
\* dispatched on, whether the config entry was written, whether a factory
\* task was created, and the last diagnostic it logged.
Output(target, write, made) ==
    [target |-> target, write |-> write, made |-> made, log |-> "none"]
NoOutput == Output("none", FALSE, FALSE)
\* Outputs of one step of a service handler: how the handler ended in this
\* step ("none": it is still waiting or did not run), the transport the
\* command was written to (0: none), whether a factory was invoked.
CmdOutput(result, wrote, made) == [result |-> result, wrote |-> wrote, made |-> made]
NoCmd == CmdOutput("none", 0, FALSE)
Logged(o, msg) == [o EXCEPT !.log = msg]
\* The diagnostics of event_callback.
Unhandled(event_type) == "unhandled event of type: " \o event_type
AddingDevice == "device_id not known, adding new device"
NoFunction == "Impossible to add device - No functions mapped"
AddDisabled == "device_id not known and automatic add disabled"

Init ==
    /\ hassState = "running"
    /\ autoAdd \in BOOLEAN
    /\ setup = "connect"
    /\ dataSet = FALSE
    /\ protocol = 0
    /\ lookup = EmptyLookup
    /\ register = [t \in Types |-> "absent"]
    /\ devices = [i \in Ids |-> "none"]
    /\ connecting = 1
    /\ timers = 0
    /\ tr = <<>>
    /\ inited = {}
    /\ lastAvail = "none"
    /\ losses = 0 /\ fails = 0 /\ nEvents = 0
    /\ emit = Quiet
    /\ last = NoOutput
    /\ pending = {}
    /\ nCmds = 0
    /\ cmd = NoCmd
    /\ invoked = [op |-> "none"]
    /\ returned = [raised |-> "none"]

\* ------------------------------------------------------------ reconnect
\* reconnect(exc): tm is the number of timers left pending by the caller.
\* Without hass.data[DOMAIN] the first statement raises KeyError and the
\* callback ends there.
\* Variant: on a disconnect the new attempt waits for the reconnect delay.
reconnect_delayed(tm) ==
    IF ~dataSet
    THEN /\ timers' = tm
         /\ emit' = Quiet
         /\ UNCHANGED <<protocol, lastAvail, connecting>>
    ELSE /\ protocol' = 0
         /\ lastAvail' = "false"
         /\ emit' = "false"
         /\ timers' = IF hassState # "stopping" THEN tm + 1 ELSE tm
         /\ UNCHANGED connecting

reconnect(tm) ==
    IF ~dataSet
    THEN /\ timers' = tm
         /\ emit' = Quiet
         /\ UNCHANGED <<protocol, lastAvail, connecting>>
    ELSE /\ protocol' = 0
         /\ lastAvail' = "false"
         /\ emit' = "false"
         /\ timers' = tm
         /\ IF hassState # "stopping"
            THEN connecting' = connecting + 1
            ELSE UNCHANGED connecting

\* The reconnect timer set by a failed connect() expires.
TimerFire ==
    /\ timers > 0
    /\ reconnect(timers - 1)
    /\ last' = NoOutput
    /\ cmd' = NoCmd /\ UNCHANGED <<pending, nCmds>>
    /\ UNCHANGED codecVars
    /\ UNCHANGED <<hassState, autoAdd, setup, dataSet, tr, inited,
                   losses, fails>>
    /\ UNCHANGED <<lookup, register, devices, nEvents>>

\* The protocol reports the loss of transport t through disconnect_callback.
DisconnectSignal(t, p) ==
    /\ t \in 1..Len(tr)
    /\ p \in tr[t].pend
    /\ tr' = [tr EXCEPT ![t].pend = @ \ {p}]
    /\ reconnect(timers)
    /\ last' = NoOutput
    /\ cmd' = NoCmd /\ UNCHANGED <<pending, nCmds>>
    /\ UNCHANGED codecVars
    /\ UNCHANGED <<hassState, autoAdd, setup, dataSet, inited,
                   losses, fails>>
    /\ UNCHANGED <<lookup, register, devices, nEvents>>

\* The serial link of an open transport drops; both the read loop and the
\* transport will report it.
LinkLoss(t) ==
    /\ t \in OpenTransports
    /\ losses < MaxLoss
    /\ losses' = losses + 1
    /\ tr' = [tr EXCEPT ![t].open = FALSE, ![t].pend = ReportPaths]
    /\ emit' = Quiet
    /\ last' = NoOutput
    /\ cmd' = NoCmd /\ UNCHANGED <<pending, nCmds>>
    /\ UNCHANGED codecVars
    /\ UNCHANGED <<hassState, autoAdd, setup, dataSet, protocol, connecting,
                   timers, inited, lastAvail, fails>>
    /\ UNCHANGED <<lookup, register, devices, nEvents>>

\* -------------------------------------------------------------- connect
\* connect(), from "await connection" on, when the open succeeds.
OpenOk ==
    /\ connecting > 0
    /\ connecting' = connecting - 1
    /\ tr' = Append(tr, [open |-> TRUE, pend |-> {}, listener |-> TRUE])
    /\ lastAvail' = "true"
    /\ emit' = "true"
    /\ dataSet' = TRUE
    /\ protocol' = Len(tr) + 1
    /\ lookup' = EmptyLookup
    /\ register' = FreshRegister
    /\ setup' = IF setup = "connect" THEN "platforms" ELSE setup
    /\ last' = NoOutput
    /\ cmd' = NoCmd /\ UNCHANGED <<pending, nCmds>>
    /\ UNCHANGED codecVars
    /\ UNCHANGED <<hassState, autoAdd, timers, inited, losses, fails>>
    /\ UNCHANGED <<devices, nEvents>>

\* connect(), from "await connection" on, when the open raises
\* SerialException, OSError or asyncio.TimeoutError.
OpenFail ==
    /\ connecting > 0
    /\ fails < MaxFail
    /\ fails' = fails + 1
    /\ connecting' = connecting - 1
    /\ lastAvail' = "false"
    /\ emit' = "false"
    /\ timers' = timers + 1
    /\ setup' = IF setup = "connect" THEN "platforms" ELSE setup
    /\ last' = NoOutput
    /\ cmd' = NoCmd /\ UNCHANGED <<pending, nCmds>>
    /\ UNCHANGED codecVars
    /\ UNCHANGED <<hassState, autoAdd, dataSet, protocol, tr, inited,
                   losses>>
    /\ UNCHANGED <<lookup, register, devices, nEvents>>

\* ----------------------------------------------------------- host steps
\* Home Assistant begins to stop: hass.state becomes stopping and
\* EVENT_HOMEASSISTANT_STOP runs every listener connect() registered, each
\* closing the transport it captured.  Closing an open transport makes the
\* transport report the disconnect.
HostStop ==
    /\ hassState = "running"
    /\ hassState' = "stopping"
    /\ tr' = [t \in 1..Len(tr) |->
                IF tr[t].listener
                THEN [open |-> FALSE,
                      pend |-> IF tr[t].open THEN {"transport"} ELSE tr[t].pend,
                      listener |-> FALSE]
                ELSE tr[t]]
    /\ emit' = Quiet
    /\ last' = NoOutput
    /\ cmd' = NoCmd /\ UNCHANGED <<pending, nCmds>>
    /\ UNCHANGED codecVars
    /\ UNCHANGED <<autoAdd, setup, dataSet, protocol, connecting, timers,
                   inited, lastAvail, losses, fails>>
    /\ UNCHANGED <<lookup, register, devices, nEvents>>

\* The later stages of the host's shutdown.  EVENT_HOMEASSISTANT_STOP is not
\* fired again, so a listener registered after HostStop never runs.
HostAdvance ==
    /\ hassState \in {"stopping", "final_write"}
    /\ hassState' = IF hassState = "stopping" THEN "final_write" ELSE "stopped"
    /\ emit' = Quiet
    /\ last' = NoOutput
    /\ cmd' = NoCmd /\ UNCHANGED <<pending, nCmds>>
    /\ UNCHANGED codecVars
    /\ UNCHANGED <<autoAdd, setup, dataSet, protocol, connecting, timers, tr,
                   inited, lastAvail, losses, fails>>
    /\ UNCHANGED <<lookup, register, devices, nEvents>>

\* ------------------------------------------------- registry / event router
\* Variant: an event without a platform counts as a sensor event.
identify_event_type_sensor(event) ==
    IF event.platform # "absent" THEN event.platform ELSE "sensor"

\* identify_event_type(event)
identify_event_type(event) ==
    IF event.platform # "absent" THEN event.platform ELSE "unknown"

\* Variant: an entry counts as bound as soon as its key is in the map, the
\* empty list a look-up left there included.
Truthy_present(v) == v # "unset"

\* Truth value of a DATA_ENTITY_LOOKUP entry: a missing key reads as the
\* defaultdict's empty list, which is falsy like the empty list itself.
Truthy(v) == v \notin {"unset", "empty"}

\* entity_id of the entity a platform creates for a device.
EntityId(t, i) == t \o "." \o i
Entities == {EntityId(t, i) : t \in Types, i \in Ids}

\* Variant: the descriptor is written into a new, empty CONF_DEVICES map
\* instead of a copy of the persisted one.
add_device_to_base_config_fresh(event, event_id) ==
    devices' = [i \in Ids |-> IF i = event_id THEN event.platform ELSE "none"]

\* _add_device_to_base_config(event, event_id)
add_device_to_base_config(event, event_id) ==
    devices' = [devices EXCEPT ![event_id] = event.platform]

\* Variant: the auto-add test comes before the look-up of the identity.
event_callback_autoadd_first(event) ==
    LET event_type == identify_event_type(event)
        event_id == event.id
    IN  IF event_type \notin DOMAIN lookup
        THEN /\ last' = Logged(NoOutput, Unhandled(event_type))
             /\ UNCHANGED <<lookup, register, devices>>
        ELSE IF register[event_type] # "absent"
             THEN /\ lookup' = [lookup EXCEPT ![event_type][event_id] = "seed"]
                  /\ add_device_to_base_config(event, event_id)
                  /\ last' = Logged(Output("none", TRUE,
                                            register[event_type] = "function"),
                                     IF register[event_type] = "function"
                                     THEN AddingDevice ELSE NoFunction)
                  /\ UNCHANGED register
             ELSE LET entity_id == lookup[event_type][event_id]
                  IN  IF Truthy(entity_id)
                      THEN /\ last' = Output(entity_id, FALSE, FALSE)
                           /\ UNCHANGED <<lookup, register, devices>>
                      ELSE /\ lookup' = [lookup EXCEPT ![event_type][event_id] = "empty"]
                           /\ last' = Logged(NoOutput, AddDisabled)
                           /\ UNCHANGED <<register, devices>>

\* event_callback(event), with hass.data[DOMAIN] present.
event_callback(event) ==
    LET event_type == identify_event_type(event)
        event_id == event.id
    IN  IF event_type \notin DOMAIN lookup
        THEN /\ last' = Logged(NoOutput, Unhandled(event_type))
             /\ UNCHANGED <<lookup, register, devices>>
        ELSE LET entity_id == lookup[event_type][event_id]
             IN  IF Truthy(entity_id)
                 THEN /\ last' = Output(entity_id, FALSE, FALSE)
                      /\ UNCHANGED <<lookup, register, devices>>
                 ELSE IF register[event_type] # "absent"
                      THEN /\ lookup' = [lookup EXCEPT ![event_type][event_id] = "seed"]
                           /\ add_device_to_base_config(event, event_id)
                           /\ last' = Logged(Output("none", TRUE,
                                                register[event_type] = "function"),
                                         IF register[event_type] = "function"
                                         THEN AddingDevice ELSE NoFunction)
                           /\ UNCHANGED register
                      ELSE /\ lookup' = [lookup EXCEPT ![event_type][event_id] = "empty"]
                           /\ last' = Logged(NoOutput, AddDisabled)
                           /\ UNCHANGED <<register, devices>>

\* The protocol of an open transport hands a decoded event to event_callback.
Event(event) ==
    /\ dataSet
    /\ OpenTransports # {}
    /\ nEvents < MaxEvents
    /\ nEvents' = nEvents + 1
    /\ event_callback(event)
    /\ emit' = Quiet
    /\ cmd' = NoCmd /\ UNCHANGED <<pending, nCmds>>
    /\ UNCHANGED codecVars
    /\ UNCHANGED <<hassState, autoAdd, setup, dataSet, protocol, connecting,
                   timers, tr, inited, lastAvail, losses, fails>>

\* A platform set up by async_forward_entry_setups registers its auto-add
\* factory for its event type.
RegisterFactory(t) ==
    /\ setup = "platforms"
    /\ dataSet /\ autoAdd
    /\ register[t] # "function"
    /\ register' = [register EXCEPT ![t] = "function"]
    /\ emit' = Quiet
    /\ last' = NoOutput
    /\ cmd' = NoCmd /\ UNCHANGED <<pending, nCmds>>
    /\ UNCHANGED codecVars
    /\ UNCHANGED <<lookup, devices, nEvents>>
    /\ UNCHANGED <<hassState, autoAdd, setup, dataSet, protocol, connecting,
                   timers, tr, inited, lastAvail, losses, fails>>

\* An entity added to the host binds its entity_id to its device identity.
BindConsumer(t, i) ==
    /\ setup \in {"platforms", "done"}
    /\ dataSet
    /\ lookup[t][i] # EntityId(t, i)
    /\ lookup' = [lookup EXCEPT ![t][i] = EntityId(t, i)]
    /\ emit' = Quiet
    /\ last' = NoOutput
    /\ cmd' = NoCmd /\ UNCHANGED <<pending, nCmds>>
    /\ UNCHANGED codecVars
    /\ UNCHANGED <<register, devices, nEvents>>
    /\ UNCHANGED <<hassState, autoAdd, setup, dataSet, protocol, connecting,
                   timers, tr, inited, lastAvail, losses, fails>>

\* async_setup_entry after the platforms are forwarded:
\* hass.data[DOMAIN][RFPLAYER_PROTOCOL].init_commands() raises when
\* hass.data[DOMAIN] is missing or the protocol is None.
SetupFinish ==
    /\ setup = "platforms"
    /\ IF dataSet /\ protocol # 0
       THEN /\ setup' = "done"
            /\ inited' = inited \cup {protocol}
       ELSE /\ setup' = "failed"
            /\ UNCHANGED inited
    /\ emit' = Quiet
    /\ last' = NoOutput
    /\ cmd' = NoCmd /\ UNCHANGED <<pending, nCmds>>
    /\ UNCHANGED codecVars
    /\ UNCHANGED <<hassState, autoAdd, dataSet, protocol, connecting, timers,
                   tr, lastAvail, losses, fails>>
    /\ UNCHANGED <<lookup, register, devices, nEvents>>

\* ------------------------------------------------------ command services
\* The transport send_command_ack / send_raw_command_ack of protocol t writes
\* to: none (0) when the transport is not connected or the packet cannot be
\* encoded (neither device_id nor device_address).
send_ack_writes(t, call) ==
    IF tr[t].open /\ (call.raw \/ call.target) THEN t ELSE 0

\* The results the acknowledgement wait can end with.
send_ack_results(wrote) ==
    IF wrote = 0 THEN {"failed"} ELSE {"ok", "failed"}

\* async_send_command / async_send_raw_command up to the await of the
\* acknowledgement: hass.data[DOMAIN][RFPLAYER_PROTOCOL] is evaluated first
\* and raises KeyError without hass.data[DOMAIN]; a protocol of None has no
\* send_command_ack and raises AttributeError.
ServiceCall(call) ==
    /\ nCmds < MaxCmds
    /\ \A c \in pending : c.call # call
    /\ nCmds' = nCmds + 1
    /\ IF ~dataSet \/ protocol = 0
       THEN /\ cmd' = CmdOutput("raised", 0, FALSE)
            /\ UNCHANGED pending
       ELSE LET wrote == send_ack_writes(protocol, call)
            IN  /\ cmd' = CmdOutput("none", wrote, FALSE)
                /\ pending' = pending \cup {[call |-> call, wrote |-> wrote]}
    /\ emit' = Quiet
    /\ last' = NoOutput
    /\ UNCHANGED <<hassState, autoAdd, setup, dataSet, protocol, connecting,
                   timers, tr, inited, lastAvail, losses, fails>>
    /\ UNCHANGED <<lookup, register, devices, nEvents>>
    /\ UNCHANGED codecVars

\* The rest of the handler once the acknowledgement wait of c has ended with
\* result r.  A failure is logged.  async_send_command then adds the device
\* when call.data[CONF_AUTOMATIC_ADD] is True: the event id is joined from
\* the protocol, the id or address and call.data[CONF_ENTITY_TYPE] (KeyError
\* or TypeError when one is missing), the factory is looked up under
\* DATA_DEVICE_REGISTER (KeyError when the type is absent, TypeError when it
\* is the {} connect() put there) and the device is persisted.
ServiceDone(c, r) ==
    /\ c \in pending
    /\ r \in send_ack_results(c.wrote)
    /\ pending' = pending \ {c}
    /\ IF c.call.raw \/ ~c.call.auto
       THEN /\ cmd' = CmdOutput(r, 0, FALSE)
            /\ UNCHANGED devices
       ELSE IF c.call.etype = "absent" \/ ~c.call.target
            THEN /\ cmd' = CmdOutput("raised", 0, FALSE)
                 /\ UNCHANGED devices
            ELSE IF register[c.call.etype] # "function"
                 THEN /\ cmd' = CmdOutput("raised", 0, FALSE)
                      /\ UNCHANGED devices
                 ELSE /\ cmd' = CmdOutput(r, 0, TRUE)
                      /\ devices' = [devices EXCEPT ![c.call.id] = c.call.etype]
    /\ emit' = Quiet
    /\ last' = NoOutput
    /\ UNCHANGED nCmds
    /\ UNCHANGED <<hassState, autoAdd, setup, dataSet, protocol, connecting,
                   timers, tr, inited, lastAvail, losses, fails>>
    /\ UNCHANGED <<lookup, register, nEvents>>
    /\ UNCHANGED codecVars

\* -------------------------------------- packet / id codec (rfpparser.py)
\* A Python string is the sequence of its characters; None is Python's
\* None, also standing for a key a dict does not have.
None == <<"None">>
PACKET_ID_SEP == "_"

\* Truth value of a string or None, as filter(None, ...) tests it.
Falsy(v) == v = None \/ v = <<>>

\* str.lower() over the letters the inputs use.
LowerChar(c) ==
    CASE c = "C" -> "c" [] c = "H" -> "h" [] c = "A" -> "a"
      [] c = "O" -> "o" [] c = "N" -> "n" [] c = "X" -> "x"
      [] c = "Y" -> "y" [] OTHER -> c
Lower(str) == [k \in 1..Len(str) |-> LowerChar(str[k])]

\* str.startswith(prefix)
StartsWith(str, prefix) ==
    Len(str) >= Len(prefix) /\ SubSeq(str, 1, Len(prefix)) = prefix

\* PACKET_ID_SEP.join(parts)
RECURSIVE Join(_)
Join(parts) ==
    IF parts = <<>> THEN <<>>
    ELSE IF Len(parts) = 1 THEN parts[1]
    ELSE parts[1] \o <<PACKET_ID_SEP>> \o Join(Tail(parts))

\* str.split(PACKET_ID_SEP): the segments between the separators, empty
\* ones included; a string without separator is its own single segment.
RECURSIVE Split(_)
Split(str) ==
    IF \A k \in 1..Len(str) : str[k] # PACKET_ID_SEP
    THEN <<str>>
    ELSE LET k == CHOOSE k \in 1..Len(str) :
                    /\ str[k] = PACKET_ID_SEP
                    /\ \A j \in 1..(k - 1) : str[j] # PACKET_ID_SEP
         IN  <<SubSeq(str, 1, k - 1)>> \o Split(SubSeq(str, k + 1, Len(str)))

\* str.replace(old, ""): every occurrence of old is removed, left to right.
RECURSIVE Remove(_, _)
Remove(str, old) ==
    IF Len(str) < Len(old) THEN str
    ELSE IF StartsWith(str, old)
         THEN Remove(SubSeq(str, Len(old) + 1, Len(str)), old)
         ELSE <<Head(str)>> \o Remove(Tail(str), old)

\* The strings deserialize_packet_id tests for.
RFPLAYER == <<"r", "f", "p", "l", "a", "y", "e", "r">>
ZIA == <<"Z", "I", "A">>
ZIAPP == <<"Z", "I", "A", "+", "+">>
UNKNOWN == <<"u", "n", "k", "n", "o", "w", "n">>
CHACON == <<"c", "h", "a", "c", "o", "n">>
DOOYA_V4 == <<"d", "o", "o", "y", "a", "_", "v", "4">>

\* A returned dict of identity parts (None: the key is absent), and a
\* raised exception.
Identity(proto, id, switch, address) ==
    [raised |-> "no", protocol |-> proto, id |-> id, switch |-> switch,
     address |-> address]
Raised(exc) == [raised |-> exc]

\* serialize_packet_id(packet)
serialize_packet_id(packet) ==
    Join(SelectSeq(<<packet.protocol, packet.id, packet.switch>>,
                   LAMBDA v : ~Falsy(v)))

\* deserialize_packet_id with a generic branch that accepts a single
\* segment as the protocol and leaves the id empty.
deserialize_packet_id_lenient(packet_id) ==
    IF packet_id = RFPLAYER THEN Identity(UNKNOWN, None, None, None)
    ELSE IF packet_id = ZIA THEN Identity(ZIAPP, None, None, None)
    ELSE IF StartsWith(Lower(packet_id), CHACON)
    THEN IF Len(Split(packet_id)) < 2 THEN Raised("IndexError")
         ELSE Identity(CHACON, None, None, Split(packet_id)[2])
    ELSE IF StartsWith(packet_id, DOOYA_V4)
    THEN LET rest == Split(Remove(packet_id, DOOYA_V4 \o <<PACKET_ID_SEP>>))[1]
         IN  Identity(DOOYA_V4, rest, rest, None)
    ELSE LET packet_id_splited == Split(packet_id)
         IN  Identity(packet_id_splited[1],
                      IF Len(packet_id_splited) > 1
                      THEN packet_id_splited[2] ELSE <<>>,
                      IF Len(packet_id_splited) > 2
                      THEN packet_id_splited[3] ELSE None,
                      None)

\* deserialize_packet_id(packet_id)
deserialize_packet_id(packet_id) ==
    IF packet_id = RFPLAYER THEN Identity(UNKNOWN, None, None, None)
    ELSE IF packet_id = ZIA THEN Identity(ZIAPP, None, None, None)
    ELSE IF StartsWith(Lower(packet_id), CHACON)
    THEN IF Len(Split(packet_id)) < 2 THEN Raised("IndexError")
         ELSE Identity(CHACON, None, None, Split(packet_id)[2])
    ELSE IF StartsWith(packet_id, DOOYA_V4)
    THEN LET rest == Split(Remove(packet_id, DOOYA_V4 \o <<PACKET_ID_SEP>>))[1]
         IN  Identity(DOOYA_V4, rest, rest, None)
    ELSE LET packet_id_splited == Split(packet_id)
         IN  IF Len(packet_id_splited) < 2 THEN Raised("IndexError")
             ELSE Identity(packet_id_splited[1], packet_id_splited[2],
                           IF Len(packet_id_splited) > 2
                           THEN packet_id_splited[3] ELSE None,
                           None)

\* The identities handed to the id codec: protocol, id, optional switch.
IdProtocols == {<<"X">>, <<"X", "_", "1">>, <<"r", "t", "s">>, <<"c", "h", "a", "c", "o", "n">>, <<"C", "H", "A", "C", "O", "N">>, <<"d", "o", "o", "y", "a", "_", "v", "4">>}
IdIds == {<<"Y">>, <<"4", "2">>, <<"1", "_", "2">>, <<"7">>}
IdSwitches == {None, <<"1">>, <<"a", "_", "b">>, <<"2">>}
Identities == [protocol : IdProtocols, id : IdIds, switch : IdSwitches]

\* The codec functions change nothing but their own result.
coreVars == <<connVars, regVars, cmdVars>>

\* deserialize_packet_id(serialize_packet_id(x))
RoundTrip(x) ==
    /\ invoked' = [op |-> "roundtrip", arg |-> x]
    /\ returned' = deserialize_packet_id(serialize_packet_id(x))
    /\ UNCHANGED coreVars

\* The keys handed to deserialize_packet_id on their own: the literals,
\* keys without a separator, generic keys of two, three and four segments,
\* and keys with the chacon and dooya_v4 prefixes.
DeKeys ==
    {<<>>, <<"X">>, <<"c", "h", "a", "c", "o", "n">>,
     <<"C", "H", "A", "C", "O", "N">>, <<"c", "h", "a", "c", "o", "n", "x">>,
     <<"r", "f", "p", "l", "a", "y", "e", "r">>, <<"Z", "I", "A">>,
     <<"z", "i", "a">>, <<"X", "_", "Y">>, <<"X", "_", "Y", "_", "1">>,
     <<"X", "_">>, <<"c", "h", "a", "c", "o", "n", "_", "A", "1">>,
     <<"c", "h", "a", "c", "o", "n", "_", "A", "1", "_", "B">>,
     <<"C", "H", "A", "C", "O", "N", "_", "a">>,
     <<"C", "h", "a", "c", "o", "n", "_", "7", "_", "1">>,
     <<"d", "o", "o", "y", "a", "_", "v", "4", "_", "1", "2">>,
     <<"d", "o", "o", "y", "a", "_", "v", "4", "_", "1", "2", "_", "3">>,
     <<"d", "o", "o", "y", "a", "_", "v", "4">>,
     <<"d", "o", "o", "y", "a", "_", "v", "4", "x", "_", "5">>,
     <<"r", "t", "s", "_", "4", "2", "_", "u", "p">>,
     <<"X", "_", "Y", "_", "1", "_", "2">>}

Deserialize(key) ==
    /\ invoked' = [op |-> "deserialize", arg |-> key]
    /\ returned' = deserialize_packet_id(key)
    /\ UNCHANGED coreVars

\* ------------------------------------------------------- decode_packet
\* What globals()["<protocol>_decode"] is for a protocol name: a decoder
\* that returns a packet, a decoder that raises, or no such name.
Decoders == {"ok", "raises", "missing"}

\* A frame as decode_packet tells frames apart: its first five characters;
\* for ZIA-- the text prefix ("json": none of the four); whether json.loads
\* accepts the body and whether the document has frame and
\* frame.header.protocolMeaning; and the decoders of the protocols named,
\* in the order named (one for ZIA33 and for a text prefix, the top-level
\* keys for ZIA-- JSON).
MaxKeys == 3
KeyLists == UNION {[1..n -> Decoders] : n \in 0..MaxKeys}
Frames ==
    [header : {"ZIA33"}, prefix : {"json"},
     body : {"ok", "malformed", "noframe", "noheader"},
     keys : [1..1 -> Decoders]]
    \cup [header : {"ZIA--"}, prefix : {"Welcome", "ZIA--", "RECEIVED", "REPEATED"},
          body : {"ok"}, keys : [1..1 -> Decoders]]
    \cup [header : {"ZIA--"}, prefix : {"json"}, body : {"ok", "malformed"},
          keys : KeyLists]
    \cup [header : {"other"}, prefix : {"json"}, body : {"ok"}, keys : {<<>>}]

\* The list decode_packet returns (each packet is the position of the key
\* it was decoded for) with the number of errors logged, or what it raises.
Decoded(packets, errors) == [raised |-> "no", packets |-> packets, errors |-> errors]

\* packets_found.append(globals()[...](...)) for the keys from position k
\* on, outside any try: the first key without a working decoder ends the
\* call with KeyError or with the decoder's exception.
RECURSIVE decode_keys(_, _, _)
decode_keys(keys, k, packets_found) ==
    IF k > Len(keys) THEN Decoded(packets_found, 0)
    ELSE IF keys[k] = "missing" THEN Raised("KeyError")
    ELSE IF keys[k] = "raises" THEN Raised("Exception")
    ELSE decode_keys(keys, k + 1, Append(packets_found, k))

\* decode_packet(packet)
decode_packet(frame) ==
    IF frame.header = "ZIA--"
    THEN IF frame.prefix # "json"
         THEN decode_keys(frame.keys, 1, <<>>)
         ELSE IF frame.body = "malformed" THEN Raised("JSONDecodeError")
              ELSE decode_keys(frame.keys, 1, <<>>)
    ELSE IF frame.header = "ZIA33"
    THEN IF frame.body = "malformed" THEN Raised("JSONDecodeError")
         ELSE IF frame.body \in {"noframe", "noheader"} THEN Raised("KeyError")
         ELSE IF frame.keys[1] = "ok" THEN Decoded(<<1>>, 0)
              ELSE Decoded(<<>>, 1)
    ELSE Decoded(<<>>, 0)

Decode(frame) ==
    /\ invoked' = [op |-> "decode", arg |-> frame]
    /\ returned' = decode_packet(frame)
    /\ UNCHANGED coreVars

\* ------------------------------------------------------- packet_events
\* Entries of PACKET_FIELDS, abbreviation and full name.  "sta" is listed
\* twice in the dict literal; the later entry, stateMeaning, is the one the
\* dict holds.
PACKET_FIELDS ==
    {<<<<"d", "t", "c">>, <<"d", "e", "t", "e", "c", "t", "o", "r">>>>,
     <<<<"s", "t", "a">>, <<"s", "t", "a", "t", "e", "M", "e", "a", "n", "i", "n", "g">>>>,
     <<<<"t", "e", "m", "p", "e", "r", "a", "t", "u", "r", "e">>, <<"t", "e", "m", "p", "e", "r", "a", "t", "u", "r", "e">>>>}

\* field_abbrev: full name -> abbreviation (no two entries share a full
\* name, so the order of the sort does not matter).
FullNames == {e[2] : e \in PACKET_FIELDS}
field_abbrev(full) == (CHOOSE e \in PACKET_FIELDS : e[2] = full)[1]

\* The strings packet_events puts into an element event.
SENSOR == <<"s", "e", "n", "s", "o", "r">>
EMPTY == <<>>

\* dict.get(key, default) for a value that is None when the key is absent.
Get(v, default) == IF v = None THEN default ELSE v

\* The packets handed to packet_events.  fields: the keys of the packet
\* other than protocol, id, switch, platform, forceid and elements, in
\* insertion order, each with its value and the value of "<key>_unit".
\* elements: the entries of packet["elements"] in insertion order, each a
\* key and a dict of which any key may be absent; the empty list stands for
\* an empty dict and for a packet without the key, which packet.get tests
\* alike.
FieldEntries ==
    {[name |-> <<"d", "e", "t", "e", "c", "t", "o", "r">>, value |-> <<"c", "l", "o", "s", "e", "d">>, unit |-> None],
     [name |-> <<"s", "t", "a">>, value |-> <<"c", "l", "o", "s", "e", "d">>, unit |-> None],
     [name |-> <<"t", "e", "m", "p", "e", "r", "a", "t", "u", "r", "e">>, value |-> <<"2", "1">>, unit |-> <<"C">>]}
MaxFields == 2
FieldLists ==
    {fl \in UNION {[1..n -> FieldEntries] : n \in 0..MaxFields} :
       \A i, j \in 1..Len(fl) : i # j => fl[i].name # fl[j].name}
ElementEntries ==
    {[key |-> <<"e", "1">>, protocol |-> <<"P">>, platform |-> <<"c", "o", "v", "e", "r">>,
      sensor |-> <<"7">>, sensor_unit |-> <<"W">>],
     [key |-> <<"e", "2">>, protocol |-> None, platform |-> None,
      sensor |-> None, sensor_unit |-> None]}
MaxElements == 2
ElementLists ==
    {el \in UNION {[1..n -> ElementEntries] : n \in 0..MaxElements} :
       \A i, j \in 1..Len(el) : i # j => el[i].key # el[j].key}
Packets ==
    [protocol : {None, <<"X">>}, id : {<<"Y">>}, switch : {None},
     platform : {None, <<"s", "e", "n", "s", "o", "r">>}, forceid : {None, <<"F">>},
     fields : FieldLists, elements : ElementLists]

\* One yielded event: its id, the key named after the sensor with its value
\* (the same value is under "value"), unit, platform and protocol.
DeviceEvent(id, sensor, value, unit, platform, proto) ==
    [id |-> id, sensor |-> sensor, value |-> value, unit |-> unit,
     platform |-> platform, protocol |-> proto]

\* What the generator yields before it ends or raises.
Yielded(exc, events) == [raised |-> exc, events |-> events]

\* The events of the first loop: one per packet key that is a key of
\* field_abbrev.
field_events(packet) ==
    LET packet_id == serialize_packet_id(packet)
        events == SelectSeq(packet.fields, LAMBDA f : f.name \in FullNames)
    IN  [k \in 1..Len(events) |->
           DeviceEvent(IF packet.forceid = None
                       THEN packet_id \o field_abbrev(events[k].name)
                              \o <<PACKET_ID_SEP>> \o field_abbrev(events[k].name)
                       ELSE packet.forceid,
                       events[k].name, events[k].value, events[k].unit,
                       packet.platform, packet.protocol)]

\* The events of the second loop: one per entry of packet["elements"].
element_events(packet) ==
    LET packet_id == serialize_packet_id(packet)
        elements == packet.elements
    IN  [k \in 1..Len(elements) |->
           DeviceEvent(IF packet.forceid = None
                       THEN packet_id \o Get(elements[k].protocol, UNKNOWN)
                              \o <<PACKET_ID_SEP>> \o elements[k].key
                       ELSE packet.forceid,
                       SENSOR, Get(elements[k].sensor, UNKNOWN),
                       Get(elements[k].sensor_unit, EMPTY),
                       Get(elements[k].platform, UNKNOWN),
                       Get(elements[k].protocol, UNKNOWN))]

\* packet_events(packet), run to its end.  The local protocol is bound only
\* when the packet has the key: without it the first yield of the first
\* loop raises UnboundLocalError and nothing is yielded.
packet_events(packet) ==
    IF field_events(packet) # <<>> /\ packet.protocol = None
    THEN Yielded("UnboundLocalError", <<>>)
    ELSE Yielded("no", field_events(packet) \o element_events(packet))

PacketEvents(packet) ==
    /\ invoked' = [op |-> "events", arg |-> packet]
    /\ returned' = packet_events(packet)
    /\ UNCHANGED coreVars

\* ------------------------------------------------------- encode_packet
\* str.upper() over the ASCII letters.
LowerLetters == <<"a", "b", "c", "d", "e", "f", "g", "h", "i", "j", "k", "l", "m", "n", "o", "p", "q", "r", "s", "t", "u", "v", "w", "x", "y", "z">>
UpperLetters == <<"A", "B", "C", "D", "E", "F", "G", "H", "I", "J", "K", "L", "M", "N", "O", "P", "Q", "R", "S", "T", "U", "V", "W", "X", "Y", "Z">>
UpperChar(c) ==
    IF \E k \in 1..26 : LowerLetters[k] = c
    THEN UpperLetters[CHOOSE k \in 1..26 : LowerLetters[k] = c]
    ELSE c
Upper(str) == [k \in 1..Len(str) |-> UpperChar(str[k])]

\* The literal parts of the command line.
SPACE == <<" ">>
ID_WORD == <<" ", "I", "D", " ">>

\* The packets handed to encode_packet: command and protocol, with id and
\* address each present or not (None: the packet does not have the key).
EncCommands == {<<"o", "n">>, <<"O", "f", "f">>, <<"D", "I", "M">>}
EncProtocols == {<<"X", "1">>, <<"r", "t", "s">>, <<"x", "2", "d">>}
EncIds == {None, <<"4", "2">>, <<"7">>, <<"a", "9">>}
EncAddresses == {None, <<"A", "1">>, <<"b", "2">>}
EncPackets ==
    [command : EncCommands, protocol : EncProtocols, id : EncIds,
     address : EncAddresses]

\* The string encode_packet returns.
Encoded(text) == [raised |-> "no", text |-> text]

\* encode_packet without the two upper() calls.
encode_packet_verbatim(packet) ==
    IF packet.id # None
    THEN Encoded(ZIAPP \o packet.command \o SPACE \o packet.protocol
                   \o ID_WORD \o packet.id)
    ELSE IF packet.address # None
    THEN Encoded(ZIAPP \o packet.command \o SPACE \o packet.protocol
                   \o SPACE \o packet.address)
    ELSE Raised("Exception")

\* encode_packet(packet)
encode_packet(packet) ==
    LET command == Upper(packet.command)
        proto == Upper(packet.protocol)
    IN  IF packet.id # None
        THEN Encoded(ZIAPP \o command \o SPACE \o proto
                       \o ID_WORD \o packet.id)
        ELSE IF packet.address # None
        THEN Encoded(ZIAPP \o command \o SPACE \o proto
                       \o SPACE \o packet.address)
        ELSE Raised("Exception")

Encode(packet) ==
    /\ invoked' = [op |-> "encode", arg |-> packet]
    /\ returned' = encode_packet(packet)
    /\ UNCHANGED coreVars

\* ------------------------------------------------------- specifications
\* Steps of the connection manager and of the host.
ConnStep ==
    \/ TimerFire
    \/ \E t \in 1..Len(tr), p \in ReportPaths : DisconnectSignal(t, p)
    \/ \E t \in 1..Len(tr) : LinkLoss(t)
    \/ OpenOk
    \/ OpenFail
    \/ SetupFinish

HostStep ==
    \/ HostStop
    \/ HostAdvance

\* Steps of the command services, and of the platforms that register a
\* factory for the types send_command adds devices of.
CmdStep ==
    \/ \E call \in Calls \cup {RawCall} : ServiceCall(call)
    \/ \E c \in pending, r \in {"ok", "failed"} : ServiceDone(c, r)
    \/ \E t \in CommandTypes : RegisterFactory(t)

\* Steps of the registry and of the platforms.
RegStep ==
    \/ \E event \in Events : Event(event)
    \/ \E t \in PlatformTypes : RegisterFactory(t)
    \/ \E t \in PlatformTypes, i \in Ids : BindConsumer(t, i)

\* The codec functions, each applied to every input of its bounded set.
CodecNext ==
    \/ \E x \in Identities : RoundTrip(x)
    \/ \E key \in DeKeys : Deserialize(key)
    \/ \E frame \in Frames : Decode(frame)
    \/ \E packet \in Packets : PacketEvents(packet)
    \/ \E packet \in EncPackets : Encode(packet)

Next == ConnStep \/ HostStep \/ RegStep \/ CmdStep \/ CodecNext

\* The whole integration.
Spec == Init /\ [][Next]_vars

\* The connection manager under every host schedule, with no device events:
\* the registry steps leave every variable of connVars but emit unchanged,
\* and no connection step reads the registry.
ConnNext == ConnStep \/ HostStep
ConnSpec == Init /\ [][ConnNext]_vars

\* The registry over every connection history, while the host is running:
\* event_callback does not read hass.state.
RegNext == ConnStep \/ RegStep
RegSpec == Init /\ [][RegNext]_vars

\* The command services over every connection history, while the host is
\* running: the handlers do not read hass.state.
CmdNext == ConnStep \/ CmdStep
CmdSpec == Init /\ [][CmdNext]_vars

\* The codec functions on their own.
CodecSpec == Init /\ [][CodecNext]_vars

\* ConnSpec with the scheduling asyncio guarantees: a due timer fires, a
\* pending disconnect report is delivered, an open attempt ends (by success,
\* by an error or by CONNECTION_TIMEOUT), setup resumes after its awaits.
\* The host is not obliged to stop and the link is not obliged to fail.
ConnFair ==
    /\ WF_vars(TimerFire)
    /\ WF_vars(\E t \in 1..Len(tr), p \in ReportPaths : DisconnectSignal(t, p))
    /\ WF_vars(OpenOk \/ OpenFail)
    /\ WF_vars(SetupFinish)
FairConnSpec == ConnSpec /\ ConnFair

\* ----------------------------------------------------------------- claims
\* A step that delivers a disconnect report to reconnect.
SignalStep == \E t \in 1..Len(tr), p \in ReportPaths : DisconnectSignal(t, p)

\* The event type and the binding event_callback reads for an event.
TypeOf(e) == identify_event_type(e)
Routable(e) == TypeOf(e) \in DOMAIN lookup
Binding(e) == lookup[TypeOf(e)][e.id]

\* C1: from a failed open until its reconnect timer has done its work, no
\* second availability=false is broadcast for the failure and no
\* reconnection is added to the one the timer stands for, also when a
\* disconnect report arrives meanwhile: while a timer is pending, a step
\* that does not itself fail an open broadcasts no False and does not raise
\* the number of pending reconnections (timers plus open attempts).
C1_OncePerFailure ==
    [][timers > 0 /\ timers' <= timers
         => emit' # "false" /\ connecting' + timers' <= connecting + timers]_vars

\* C2: at most one transport handle is Connecting or Connected: open
\* attempts in flight and open transports together never exceed one.
C2_SingleHandle == connecting + Cardinality(OpenTransports) <= 1

\* C3: a disconnect signal received while the manager is Disconnected or
\* Connecting (no protocol bound) is a no-op: it starts no open attempt and
\* broadcasts nothing.
C3_SignalNoOp ==
    [][SignalStep /\ ~Connected => connecting' = connecting /\ emit' = Quiet]_vars

\* C4: unless shutdown has begun, a failed open attempt (its reconnect timer
\* is pending) and the loss of the Connected link (its report is pending on
\* the bound transport) are each eventually followed by a new open attempt.
C4_Recovers ==
    /\ [](timers > 0 /\ ~ShutdownBegun => <>(Connecting \/ ShutdownBegun))
    /\ []((\E t \in 1..Len(tr) : protocol = t /\ tr[t].pend # {}) /\ ~ShutdownBegun
             => <>(Connecting \/ ShutdownBegun))

\* C5 as stated: after a disconnect signal on a Connected link False is
\* broadcast and the next open attempt is not started by that signal (it
\* waits for the reconnect delay).
C5_DelayedReconnect ==
    [][SignalStep /\ Connected => emit' = "false" /\ connecting' = connecting]_vars

\* C5 as amended: after a disconnect signal on a Connected link False is
\* broadcast and, unless the host state is stopping, the next open attempt
\* is started at once with no reconnect timer set; a reconnect timer is set
\* only by a failed open attempt.
C5_ImmediateReconnect ==
    [][/\ SignalStep /\ Connected
          => /\ emit' = "false"
             /\ timers' = timers
             /\ connecting' = IF hassState = "stopping" THEN connecting
                              ELSE connecting + 1
       /\ timers' > timers => OpenFail]_vars

\* C5 witness: the link of the Connected transport was lost, its first
\* report has been delivered, and the new open attempt is already in flight
\* with no timer pending.
C5_Witness ==
    /\ emit = "false" /\ protocol = 0 /\ connecting = 1 /\ timers = 0
    /\ fails = 0 /\ hassState = "running"
    /\ \E t \in 1..Len(tr) : ~tr[t].open /\ tr[t].pend = {"transport"}

\* C6: once shutdown has begun no further open attempt is started, whatever
\* the later host state in which a timer fires or a disconnect signal
\* arrives.
C6_NoAttemptAfterShutdown == [][ShutdownBegun => connecting' <= connecting]_vars

\* C7: on controlled shutdown one close call is issued in total (none when
\* no transport was ever opened), however many connect/reconnect cycles
\* came before.
C7_OneClose == ShutdownBegun => Cardinality(Closed) <= 1

\* C8: with a factory registered for the type, the first event of an unseen
\* identity registers it, persists it and invokes the factory, and a second
\* event of that identity, arriving right after that registration, is
\* dispatched to a consumer and registers, persists and invokes nothing.
C8_RaceCollapses ==
    [][\A e \in Events :
         Event(e) /\ Routable(e) /\ register[TypeOf(e)] = "function"
           => /\ ~Truthy(Binding(e))
                  => /\ Truthy(lookup'[TypeOf(e)][e.id])
                     /\ last'.write /\ last'.made
              /\ last.made /\ Binding(e) = "seed"
                  => /\ last'.target \in Entities
                     /\ lookup' = lookup /\ devices' = devices
                     /\ ~last'.write /\ ~last'.made]_vars

\* C9: an event of an unbound identity registers the identity exactly when
\* a factory is invoked with it, and writes the config entry exactly when a
\* factory is invoked with it.
C9_RegisterIffFactory ==
    [][\A e \in Events :
         Event(e) /\ Routable(e) /\ ~Truthy(Binding(e))
           => /\ Truthy(lookup'[TypeOf(e)][e.id]) <=> last'.made
              /\ last'.write <=> last'.made]_vars

\* C10: an event whose identity is bound in its type's map is dispatched on
\* the signal of exactly the bound value, and changes no binding, writes no
\* config entry and creates no factory task.
C10_BoundForwarded ==
    [][\A e \in Events :
         Event(e) /\ Routable(e) /\ Truthy(Binding(e))
           => /\ last'.target = Binding(e)
              /\ ~last'.write /\ ~last'.made
              /\ lookup' = lookup /\ register' = register
              /\ devices' = devices]_vars

\* C10 witness: the latest event was dispatched to a consumer's entity id.
C10_Witness == last.target \in Entities /\ nEvents > 0

\* C11: an event without a platform, or whose platform has no map under
\* DATA_ENTITY_LOOKUP, is dropped with the "unhandled" diagnostic (for the
\* missing platform: of type "unknown"): it is dispatched to no consumer,
\* binds no identity, writes no config entry and creates no factory task.
C11_UnknownDropped ==
    [][\A e \in Events :
         Event(e) /\ (e.platform = "absent" \/ e.platform \notin DOMAIN lookup)
           => /\ last' = Logged(NoOutput,
                                Unhandled(IF e.platform = "absent"
                                          THEN "unknown" ELSE e.platform))
              /\ lookup' = lookup /\ register' = register
              /\ devices' = devices]_vars

\* C11 witness: with auto-add on and a factory registered, the latest event
\* was dropped as unhandled.
C11_Witness ==
    /\ last.log \in {Unhandled("unknown"), Unhandled("switch")}
    /\ autoAdd /\ register["sensor"] = "function" /\ nEvents > 0

\* C12: a binding of an identity to a consumer, and the registration of an
\* auto-add factory for a type, are never removed: whatever step is taken,
\* disconnect and reconnect included, a bound identity keeps its consumer
\* and a type keeps its factory.
C12_BindingsKept ==
    [][/\ \A t \in Types, i \in Ids :
             lookup[t][i] \in Entities => lookup'[t][i] = lookup[t][i]
       /\ \A t \in Types :
             register[t] = "function" => register'[t] = "function"]_vars

\* C13: send_command and send_raw_command invoked after a disconnect and
\* before the next successful open (no protocol is bound) report a failure
\* to the caller: the call does not raise, writes to no transport and waits
\* for no acknowledgement.
C13_NotConnectedFails ==
    [][\A call \in Calls \cup {RawCall} :
         ServiceCall(call) /\ dataSet /\ protocol = 0
           => /\ cmd'.result = "failed"
              /\ cmd'.wrote = 0
              /\ pending' = pending]_vars

\* C14: on every connection, the first and every later one, the
\* initialization batch is issued before any other command is sent on it:
\* once async_setup_entry has returned, a service call writes only to a
\* transport init_commands() was issued on.
C14_InitFirst ==
    [][(setup = "done" /\ cmd'.wrote # 0)
           => (cmd'.wrote \in inited)]_vars

\* C15: after every step the value most recently broadcast on the
\* availability signal is true exactly when a protocol handle is bound, and
\* every step that binds or unbinds the handle broadcasts the availability.
C15_AvailabilityTracks ==
    [][/\ (lastAvail' = "true") <=> Connected'
       /\ Connected' # Connected => emit' # Quiet]_vars

\* The key takes one of the legacy branches of deserialize_packet_id.
LegacyKey(key) ==
    \/ key \in {RFPLAYER, ZIA}
    \/ StartsWith(Lower(key), CHACON)
    \/ StartsWith(key, DOOYA_V4)

\* C16: for every identity x = (protocol, id, optional switch) whose key is
\* not a legacy special case, deserialize(serialize(x)) equals x.
C16_RoundTrip ==
    invoked.op = "roundtrip" /\ ~LegacyKey(serialize_packet_id(invoked.arg))
      => returned = Identity(invoked.arg.protocol, invoked.arg.id,
                             invoked.arg.switch, None)

\* C17: decoding a ZIA33 frame never raises (missing decoder, decoder
\* exception, malformed JSON, missing frame or header), yields exactly one
\* packet when the frame is well-formed and its decoder resolves and works,
\* and yields no packet when the decoder is missing.
C17_Zia33NeverRaises ==
    invoked.op = "decode" /\ invoked.arg.header = "ZIA33"
      => /\ returned.raised = "no"
         /\ invoked.arg.body = "ok" /\ invoked.arg.keys[1] = "ok"
              => Len(returned.packets) = 1
         /\ invoked.arg.body = "ok" /\ invoked.arg.keys[1] = "missing"
              => Len(returned.packets) = 0

\* C18: decoding a ZIA-- JSON line with several top-level keys yields one
\* packet for every key that has a decoder, in order; a key naming an
\* unknown protocol is skipped and neither ends the decoding of the other
\* keys nor raises.
C18_UnknownKeySkipped ==
    (/\ invoked.op = "decode" /\ invoked.arg.header = "ZIA--"
     /\ invoked.arg.prefix = "json" /\ invoked.arg.body = "ok"
     /\ Len(invoked.arg.keys) >= 2
     /\ \A k \in 1..Len(invoked.arg.keys) : invoked.arg.keys[k] # "raises")
      => (/\ returned.raised = "no"
          /\ returned.packets =
               SelectSeq([j \in 1..Len(invoked.arg.keys) |-> j],
                         LAMBDA n : invoked.arg.keys[n] = "ok"))

\* The fields of the called packet that packet_events knows, in order.
KnownFields == SelectSeq(invoked.arg.fields, LAMBDA f : f.name \in FullNames)

\* C19: over a packet that names its protocol and has no override identity,
\* extractEvents yields exactly one event per known field present, carrying
\* the field's value and an id built from the serialized identity and the
\* field's full name, the separator and the full name again (with or
\* without a separator after the identity); and the packet with fields
\* {sta: "closed"}, protocol X and id Y yields one event with id
\* "X_Y_detector_detector" and value "closed".
C19_FieldEvents ==
    (/\ invoked.op = "events" /\ invoked.arg.forceid = None
     /\ invoked.arg.protocol # None)
      => (/\ returned.raised = "no"
          /\ Len(returned.events) = Len(KnownFields) + Len(invoked.arg.elements)
          /\ \A k \in 1..Len(KnownFields) :
                LET pid == serialize_packet_id(invoked.arg)
                    full == KnownFields[k].name
                IN  /\ returned.events[k].value = KnownFields[k].value
                    /\ returned.events[k].id \in
                         {pid \o full \o <<PACKET_ID_SEP>> \o full,
                          pid \o <<PACKET_ID_SEP>> \o full
                              \o <<PACKET_ID_SEP>> \o full}
          /\ (/\ invoked.arg.protocol = <<"X">>
              /\ Len(invoked.arg.fields) = 1
              /\ invoked.arg.fields[1].name = <<"s", "t", "a">>
              /\ invoked.arg.elements = <<>>)
                => (/\ Len(returned.events) = 1
                    /\ returned.events[1].id = <<"X", "_", "Y", "_", "d", "e", "t", "e", "c", "t", "o", "r", "_", "d", "e", "t", "e", "c", "t", "o", "r">>
                    /\ returned.events[1].value = <<"c", "l", "o", "s", "e", "d">>))

\* C20: over a packet whose elements map has n >= 1 entries, extractEvents
\* ends normally and yields, after the events of the packet's own fields,
\* exactly n events, the k-th taking protocol, platform, unit and value from
\* the k-th element ("unknown", and the empty unit, for what the element
\* lacks) and not from the packet's top-level fields.
C20_ElementEvents ==
    (invoked.op = "events" /\ Len(invoked.arg.elements) >= 1)
      => (/\ returned.raised = "no"
          /\ Len(returned.events) = Len(KnownFields) + Len(invoked.arg.elements)
          /\ \A k \in 1..Len(invoked.arg.elements) :
                LET ev == returned.events[Len(KnownFields) + k]
                    el == invoked.arg.elements[k]
                IN  /\ ev.protocol = Get(el.protocol, UNKNOWN)
                    /\ ev.platform = Get(el.platform, UNKNOWN)
                    /\ ev.unit = Get(el.sensor_unit, EMPTY)
                    /\ ev.value = Get(el.sensor, UNKNOWN))

\* C21: extractEvents never raises on absent values: every event of a
\* packet's own fields carries the packet's protocol and platform, or
\* "unknown" for the one the packet lacks; every element event carries
\* "unknown" for the protocol, platform or sensor value its element lacks;
\* and the unit of an event whose source has none is empty or absent.
C21_AbsentDefaults ==
    invoked.op = "events"
      => (/\ returned.raised = "no"
          /\ Len(returned.events) = Len(KnownFields) + Len(invoked.arg.elements)
          /\ \A k \in 1..Len(KnownFields) :
                LET ev == returned.events[k]
                IN  /\ ev.protocol = Get(invoked.arg.protocol, UNKNOWN)
                    /\ ev.platform = Get(invoked.arg.platform, UNKNOWN)
                    /\ KnownFields[k].unit = None => ev.unit \in {None, EMPTY}
          /\ \A k \in 1..Len(invoked.arg.elements) :
                LET ev == returned.events[Len(KnownFields) + k]
                    el == invoked.arg.elements[k]
                IN  /\ ev.protocol = Get(el.protocol, UNKNOWN)
                    /\ ev.platform = Get(el.platform, UNKNOWN)
                    /\ ev.value = Get(el.sensor, UNKNOWN)
                    /\ el.sensor_unit = None => ev.unit \in {None, EMPTY})

\* C22: encode uppercases the command and the protocol and leaves the id or
\* address as given; it returns "ZIA++<COMMAND> <PROTOCOL> ID <id>" when the
\* packet has an id (with or without an address), "ZIA++<COMMAND> <PROTOCOL>
\* <address>" when it has only an address, and fails when it has neither;
\* protocol X1, command on, id 42 give "ZIA++ON X1 ID 42".
C22_Encode ==
    invoked.op = "encode"
      => LET p == invoked.arg
             head == <<"Z", "I", "A", "+", "+">> \o Upper(p.command)
                       \o <<" ">> \o Upper(p.protocol) \o <<" ">>
         IN  /\ p.id # None
                  => returned = [raised |-> "no",
                                 text |-> head \o <<"I", "D", " ">> \o p.id]
             /\ p.id = None /\ p.address # None
                  => returned = [raised |-> "no", text |-> head \o p.address]
             /\ p.id = None /\ p.address = None => returned.raised # "no"
             /\ (/\ p.protocol = <<"X", "1">> /\ p.command = <<"o", "n">>
                 /\ p.id = <<"4", "2">>)
                  => returned.text =
                       <<"Z", "I", "A", "+", "+", "O", "N", " ", "X", "1", " ", "I", "D", " ", "4", "2">>

\* The example packet (protocol X1, command on, id 42) has been encoded.
C22_Witness ==
    /\ invoked.op = "encode"
    /\ invoked.arg.protocol = <<"X", "1">>
    /\ invoked.arg.command = <<"o", "n">>
    /\ invoked.arg.id = <<"4", "2">>
    /\ returned.raised = "no"
    /\ returned.text = <<"Z", "I", "A", "+", "+", "O", "N", " ", "X", "1", " ", "I", "D", " ", "4", "2">>

\* C23: deserialize applied to a key that has fewer than two
\* separator-delimited segments and is not one of the literals "rfplayer"
\* and "ZIA" reports a failure and returns no identity.
C23_MalformedFails ==
    (/\ invoked.op = "deserialize"
     /\ Len(Split(invoked.arg)) < 2
     /\ invoked.arg \notin {RFPLAYER, ZIA})
      => returned.raised # "no"

\* A one-segment key ("X", "chacon" or the empty key) has been
\* deserialized and the call raised.
C23_Witness ==
    /\ invoked.op = "deserialize"
    /\ invoked.arg \in {<<"X">>, CHACON, <<>>}
    /\ returned = Raised("IndexError")

\* C24: deserialize applies the legacy prefix cases before the generic
\* split: a key that begins with chacon and has a separator decodes to
\* protocol chacon with address equal to the whole of the key after its
\* first separator, and a key that begins with dooya_v4 decodes to protocol
\* dooya_v4 with id and switch both equal to what follows the prefix (and
\* the separator after it), up to the next separator.
C24_LegacyPrefixes ==
    invoked.op = "deserialize"
      => LET key == invoked.arg
             first == CHOOSE k \in 1..Len(key) :
                         /\ key[k] = PACKET_ID_SEP
                         /\ \A j \in 1..(k - 1) : key[j] # PACKET_ID_SEP
             rest == SubSeq(key, Len(DOOYA_V4) + 1, Len(key))
             body == IF StartsWith(rest, <<PACKET_ID_SEP>>)
                     THEN Tail(rest) ELSE rest
         IN  /\ (StartsWith(key, CHACON) /\ Len(Split(key)) >= 2)
                  => returned = Identity(CHACON, None, None,
                                         SubSeq(key, first + 1, Len(key)))
             /\ StartsWith(key, DOOYA_V4)
                  => returned = Identity(DOOYA_V4, Split(body)[1],
                                         Split(body)[1], None)

\* C25: a step of event_callback that persists a newly registered device
\* writes the descriptor of that event under its event id and leaves the
\* descriptor persisted under every other id, and the rest of the
\* configuration data (the auto-add option), unchanged; and over every step
\* an id that has a persisted descriptor keeps having one.
C25_PersistFrame ==
    [][/\ \A event \in Events :
            (Event(event) /\ last'.write)
              => (/\ devices'[event.id] = event.platform
                  /\ \A i \in Ids \ {event.id} : devices'[i] = devices[i]
                  /\ autoAdd' = autoAdd)
       /\ \A i \in Ids : devices[i] # "none" => devices'[i] # "none"]_vars

\* A device has just been registered and persisted while the descriptor of
\* another device, persisted earlier, is in the configuration.
C25_Witness ==
    /\ last.write
    /\ last.log = AddingDevice
    /\ \A i \in Ids : devices[i] # "none"

\* C26: an event for an identity that has no consumer bound, arriving while
\* no factory is registered for its type, leaves the identity unbound, and
\* so does every later such event: each is handled as unknown (diagnostic
\* "automatic add disabled", nothing persisted, no factory task) and
\* forwarded to no consumer; and an event for an identity whose look-up
\* entry is what an earlier look-up left is forwarded to no consumer
\* whether or not a factory is registered by then.
C26_LookupDoesNotBind ==
    [][\A event \in Events :
         (Event(event) /\ Routable(event))
           => (/\ Binding(event) \in {"unset", "empty"}
                    => last'.target = "none"
               /\ (/\ Binding(event) \in {"unset", "empty"}
                   /\ register[TypeOf(event)] = "absent")
                    => (/\ lookup'[TypeOf(event)][event.id] \in {"unset", "empty"}
                        /\ last' = Logged(NoOutput, AddDisabled)
                        /\ devices' = devices))]_vars

\* After two events, the later one for an identity whose entry an earlier
\* look-up left empty has been handled as unknown.
C26_Witness ==
    /\ nEvents = 2
    /\ last = Logged(NoOutput, AddDisabled)
    /\ \E i \in Ids :
          /\ lookup["sensor"][i] = "empty"
          /\ \A j \in Ids \ {i} : lookup["sensor"][j] = "unset"
====
